---------------------------- MODULE Spec2Model ----------------------------
(***************************************************************************)
(* Compute-unit registry and camera reconciliation of the admin backend:   *)
(* backend/utils/ping.py, backend/api/compute_units.py,                    *)
(* backend/api/cameras.py and the models they persist.                     *)
(*                                                                         *)
(* Python values are modelled as follows.  A dict is a TLA+ function whose *)
(* DOMAIN is the set of keys that are present; d.get(k, default) is Get.   *)
(* An address is the sequence of the tokens of the address string, so that *)
(* "':' in ip_address" is a membership test on the tokens.                 *)
(***************************************************************************)
EXTENDS Integers, Sequences, FiniteSets, TLC

VARIABLES
    units,       \* table compute_units: set of rows
    streamers,   \* table streamers: set of rows
    now,         \* datetime.utcnow(), one tick per request
    call,        \* the request last handled, with what the network did
    resp,        \* the response to it
    prevPasses,  \* the passes that the request before it completed
    pingArgs,    \* arguments of a ping_device_detailed call
    pingResult,  \* ... and the dict it returned
    featArgs,    \* arguments of a _convert_assignments_to_features call
    featResult,  \* ... and the list it returned
    adds,        \* add requests handled concurrently: where each one stands
    favorites,   \* table favorite_streamers: set of rows
    flights      \* passes and deletes handled concurrently: where each stands

vars == <<units, streamers, now, call, resp, prevPasses,
          pingArgs, pingResult, featArgs, featResult, adds, favorites,
          flights>>

dbVars == <<units, streamers, now, call, resp, prevPasses>>
pingVars == <<pingArgs, pingResult>>
featVars == <<featArgs, featResult>>

-----------------------------------------------------------------------------
(* Python helpers *)

Has(d, k) == k \in DOMAIN d

Get(d, k, default) == IF k \in DOMAIN d THEN d[k] ELSE default

\* d with key k set to v.
WithKey(d, k, v) == [x \in (DOMAIN d) \cup {k} |-> IF x = k THEN v ELSE d[x]]

\* The dicts of D, and each of them with key k added, bound to a value of V.
Opt(D, k, V) == D \cup {WithKey(d, k, v) : d \in D, v \in V}

\* All sequences over S of length at most n.
SeqsUpTo(S, n) == UNION {[1..k -> S] : k \in 0..n}

\* A str value and a bool value of a JSON document (never equal in Python).
PyStr(s) == [t |-> "str", v |-> s]
PyBool(s) == [t |-> "bool", v |-> s]

-----------------------------------------------------------------------------
(* utils/ping.py *)

\* Addresses: without and with a port.
Addr1 == <<"10.0.0.5">>
Addr2 == <<"10.0.0.6", ":", "9000">>

\* f"http://{ip_address}/ping" or f"http://{ip_address}:8000/ping"
PingUrl(ip_address) ==
    IF \E i \in 1..Len(ip_address) : ip_address[i] = ":"
    THEN <<"http://">> \o ip_address \o <<"/ping">>
    ELSE <<"http://">> \o ip_address \o <<":", "8000", "/ping">>

\* The classes an exception raised inside the try block is an instance of.
\* requests.exceptions.ConnectTimeout derives from both ConnectionError and
\* Timeout; ReadTimeout derives from Timeout only.  JSONDecodeError is what
\* response.json() raises, AttributeError what .get raises on a non-dict.
ExcBases(exc) ==
    CASE exc = "ConnectionError" -> {"ConnectionError", "Exception"}
      [] exc = "ConnectTimeout"  -> {"ConnectionError", "Timeout", "Exception"}
      [] exc = "ReadTimeout"     -> {"Timeout", "Exception"}
      [] OTHER                   -> {"Exception"}

StatusStr(status_code) ==
    CASE status_code = 200 -> "200"
      [] status_code = 404 -> "404"
      [] status_code = 500 -> "500"
      [] OTHER -> "?"

\* A mutation of PingTry: HTTP 200 alone grants reachability.
PingTryAnyBody(remote) ==
    IF remote.kind # "response" THEN [exc |-> remote.kind]
    ELSE [exc |-> "none", method |-> "direct_ai_ping", response |-> "Unknown",
          reachable |-> (remote.status_code = 200)]

\* The try block, lines 14-38: the value returned, or the exception raised.
PingTry(remote) ==
    IF remote.kind # "response" THEN [exc |-> remote.kind]
    ELSE IF remote.status_code = 200 THEN
        IF ~remote.body.json THEN [exc |-> "JSONDecodeError"]
        ELSE IF ~remote.body.isdict THEN [exc |-> "AttributeError"]
        ELSE LET data == remote.body.data IN
             [exc |-> "none",
              method |-> "direct_ai_ping",
              response |-> Get(data, "msg", Get(data, "status", "Unknown")),
              reachable |-> (Has(data, "msg") /\ data["msg"] = "pong")]
    ELSE [exc |-> "none",
          method |-> "direct_ai_ping",
          response |-> "Device not found (HTTP "
                          \o StatusStr(remote.status_code) \o ")",
          reachable |-> FALSE]

\* The whole function: the try block and the chain of except clauses, which
\* Python tries in order.
ping_device_detailed(ip_address, remote) ==
    LET t == PingTry(remote) IN
    IF t.exc = "none" THEN
        [done |-> TRUE, url |-> PingUrl(ip_address), raised |-> FALSE,
         reachable |-> t.reachable, response |-> t.response, method |-> t.method]
    ELSE IF "ConnectionError" \in ExcBases(t.exc) THEN
        [done |-> TRUE, url |-> PingUrl(ip_address), raised |-> FALSE,
         reachable |-> FALSE,
         response |-> "Device not found - connection refused",
         method |-> "connection_refused"]
    ELSE IF "Timeout" \in ExcBases(t.exc) THEN
        [done |-> TRUE, url |-> PingUrl(ip_address), raised |-> FALSE,
         reachable |-> FALSE,
         response |-> "Device not found - connection timeout",
         method |-> "connection_timeout"]
    ELSE IF "Exception" \in ExcBases(t.exc) THEN
        [done |-> TRUE, url |-> PingUrl(ip_address), raised |-> FALSE,
         reachable |-> FALSE,
         response |-> "Device not found - unable to connect",
         method |-> "connection_failed"]
    ELSE
        [done |-> TRUE, url |-> PingUrl(ip_address), raised |-> TRUE,
         reachable |-> FALSE, response |-> "No response", method |-> "unknown"]

\* What GET <ping_url> may do: a transport failure, or a response.
PingMsgs == {"pong", "Pong", "pong ", "ping", ""}
EmptyDict == [k \in {} |-> ""]
PingDicts ==
    Opt(Opt({EmptyDict}, "msg", PingMsgs), "status", {"ok", "pong"})
PingBodies ==
    {[json |-> FALSE], [json |-> TRUE, isdict |-> FALSE]}
        \cup {[json |-> TRUE, isdict |-> TRUE, data |-> d] : d \in PingDicts}
PingStatuses == {200, 404, 500}
PingRemotes ==
    {[kind |-> k] : k \in {"ConnectionError", "ConnectTimeout",
                            "ReadTimeout", "TooManyRedirects"}}
        \cup {[kind |-> "response", status_code |-> s, body |-> b] :
                 s \in PingStatuses, b \in PingBodies}

NoPing == [done |-> FALSE]

PingInputs == [ip_address : {Addr1, Addr2}, remote : PingRemotes]

Ping ==
    /\ pingResult = NoPing
    /\ pingResult' = ping_device_detailed(pingArgs.ip_address, pingArgs.remote)
    /\ UNCHANGED pingArgs

-----------------------------------------------------------------------------
(* api/compute_units.py: _convert_assignments_to_features *)

\* A mutation of FeatureOf: is_active is tested for truthiness.
FeatureOfTruthy(streamer_uuid, assignment) ==
    IF /\ Has(assignment, "streamer_uuid")
       /\ assignment["streamer_uuid"] = streamer_uuid
       /\ Has(assignment, "is_active")
       /\ assignment["is_active"] \notin {PyStr(""), PyBool("False")}
    THEN LET app_name == Get(assignment, "app_name", "")
             result_name == Get(assignment, "app_config_template_name", "")
         IN IF app_name # "" /\ result_name # ""
            THEN <<app_name \o "." \o result_name>>
            ELSE <<>>
    ELSE <<>>

\* The body of the for loop, lines 202-208: what one assignment appends.
FeatureOf(streamer_uuid, assignment) ==
    IF /\ Has(assignment, "streamer_uuid")
       /\ assignment["streamer_uuid"] = streamer_uuid
       /\ Has(assignment, "is_active")
       /\ assignment["is_active"] = PyStr("true")
    THEN LET app_name == Get(assignment, "app_name", "")
             result_name == Get(assignment, "app_config_template_name", "")
         IN IF app_name # "" /\ result_name # ""
            THEN <<app_name \o "." \o result_name>>
            ELSE <<>>
    ELSE <<>>

\* An element of the assignments list that is not a JSON object.
IsDict(x) == ~Has(x, "nondict")
NonDict == [nondict |-> "oops"]

\* The loop from assignment i on; features is the list built so far.
\* assignment.get raises AttributeError on an element that is no dict.
RECURSIVE ConvertFrom(_, _, _, _)
ConvertFrom(streamer_uuid, assignments_data, i, features) ==
    IF i > Len(assignments_data) THEN [raised |-> FALSE, features |-> features]
    ELSE IF ~IsDict(assignments_data[i]) THEN [raised |-> TRUE, features |-> features]
    ELSE ConvertFrom(streamer_uuid, assignments_data, i + 1,
                     features \o FeatureOf(streamer_uuid, assignments_data[i]))

convert_assignments_to_features(streamer_uuid, assignments_data) ==
    ConvertFrom(streamer_uuid, assignments_data, 1, <<>>)

FeatUuids == {"s1", "s2"}
FeatActives == {PyStr("true"), PyStr("false"), PyBool("True")}
FeatApps == {"", "motion"}
FeatTemplates == {"", "default"}
MaxAssignments == 2

\* Assignment records; app_name and the template name may be absent.
FeatAssignments ==
    Opt(Opt({[streamer_uuid |-> u, is_active |-> a] :
                u \in FeatUuids, a \in FeatActives},
            "app_name", FeatApps),
        "app_config_template_name", FeatTemplates)

NoFeat == [done |-> FALSE]

FeatInputs ==
    [streamer_uuid : FeatUuids,
     assignments : SeqsUpTo(FeatAssignments, MaxAssignments)]

Convert ==
    /\ featResult = NoFeat
    /\ featResult' =
          [done |-> TRUE,
           out |-> convert_assignments_to_features(featArgs.streamer_uuid,
                                                   featArgs.assignments)]
    /\ UNCHANGED featArgs

-----------------------------------------------------------------------------
(* models/compute_unit.py, models/streamer.py: the persisted rows *)

\* Column features: json.dumps(features) if features else None (line 110).
NoneFeatures == [null |-> TRUE]
FeaturesColumn(features) ==
    IF features = <<>> THEN NoneFeatures ELSE [null |-> FALSE, json |-> features]

\* Streamer.to_dict, lines 39-44: the column read back as a list.
FeaturesList(column) == IF column.null THEN <<>> ELSE column.json

\* The next INTEGER PRIMARY KEY of a table.
NextId(rows) ==
    IF rows = {} THEN 1
    ELSE 1 + CHOOSE m \in {r.id : r \in rows} : \A r \in rows : r.id <= m

\* Streamer(...), as _sync_cameras_from_unit constructs it (lines 89-96),
\* with the defaults of Streamer.__init__.
NewStreamer(rows, streamer_uuid, streamer_hr_name, unit, t) ==
    [id |-> NextId(rows),
     streamer_uuid |-> streamer_uuid,
     streamer_type |-> "camera",
     streamer_hr_name |-> streamer_hr_name,
     config_template_name |-> "default",
     is_alive |-> "false",
     ip_address |-> unit.ip_address,
     compute_unit_id |-> unit.id,
     status |-> "inactive",
     last_seen |-> t,
     created_at |-> t,
     features |-> NoneFeatures]

\* f'Compute Unit {ip_address}', the name of a unit added without one.
DefaultName(ip_address) == <<"Compute Unit ">> \o ip_address

\* ComputeUnit(name=..., ip_address=..., status='online', last_seen=utcnow()).
NewUnit(rows, ip_address, t) ==
    [id |-> NextId(rows), name |-> DefaultName(ip_address),
     ip_address |-> ip_address, status |-> "online", last_seen |-> t]

UnitById(rows, id) == CHOOSE u \in rows : u.id = id

\* The ids of a set of rows, ascending: the order of query.all().
RECURSIVE IdSeq(_)
IdSeq(ids) ==
    IF ids = {} THEN <<>>
    ELSE LET m == CHOOSE x \in ids : \A y \in ids : x <= y
         IN <<m>> \o IdSeq(ids \ {m})

\* Streamer.to_dict
StreamerDict(s) ==
    [streamerUuid |-> s.streamer_uuid,
     name |-> s.streamer_hr_name,
     status |-> s.status,
     is_alive |-> s.is_alive,
     computeUnitId |-> s.compute_unit_id,
     computeUnitIP |-> s.ip_address,
     features |-> FeaturesList(s.features)]

\* Streamer.query.filter_by(compute_unit_id=..., streamer_type='camera').all()
CamerasOf(rows, unit_id) ==
    {s \in rows : s.compute_unit_id = unit_id /\ s.streamer_type = "camera"}

CameraDicts(rows, unit_id) ==
    LET cams == CamerasOf(rows, unit_id)
        ids == IdSeq({s.id : s \in cams})
    IN [i \in 1..Len(ids) |-> StreamerDict(CHOOSE s \in cams : s.id = ids[i])]

-----------------------------------------------------------------------------
(* api/cameras.py: the proxy the reconciliation pass fetches through *)

\* CamerasResource.get: what the proxy answers (always HTTP 200) for what the
\* device did.  A transport failure or a non-200 status of the device gives
\* an empty payload; so does a payload with an element that is no object,
\* because tagging it raises and the outer handler answers {'payload': []}.
CamerasResource_get(compute_unit_ip, device) ==
    IF device.kind # "ok" THEN <<>>
    ELSE IF \E i \in 1..Len(device.payload) : ~IsDict(device.payload[i]) THEN <<>>
    ELSE [i \in 1..Len(device.payload) |->
             WithKey(device.payload[i], "compute_unit_ip", compute_unit_ip)]

-----------------------------------------------------------------------------
(* api/compute_units.py: the reconciliation pass *)

\* A streamer_uuid that is a JSON array: truthy, but the lookup query cannot
\* bind it and raises.
UuidJsonArray == "['c1']"

\* A streamer_hr_name that is JSON null.  The column is NOT NULL
\* (models/streamer.py line 11), so a flush of a row that carries it raises.
NullName == "<null>"

\* The session holds a pending row that the database refuses.
FlushFails(sess) == \E s \in sess.streamers : s.streamer_hr_name = NullName

\* A variant of _fetch_app_assignments whose failure reaches the loop as a
\* value the conversion cannot read.
FetchAssignmentsUnguarded(asg) ==
    IF asg.kind = "ok" THEN asg.assignments ELSE <<NonDict>>

\* _fetch_app_assignments: [] on a transport failure or a non-200 status.
fetch_app_assignments(asg) ==
    IF asg.kind = "ok" THEN asg.assignments ELSE <<>>

\* A variant of the feature update that stores a list only when it has an
\* entry.
WithFeaturesWhenAny(streamer, features) ==
    IF features = <<>> THEN streamer
    ELSE [streamer EXCEPT !.features = FeaturesColumn(features)]

\* Line 110: streamer.features = json.dumps(features) if features else None.
WithFeatures(streamer, features) ==
    [streamer EXCEPT !.features = FeaturesColumn(features)]

\* A variant of the owner update that leaves a row with the owner it has.
AdoptedNever(streamer, unit) == streamer

\* Lines 104-105: the row takes the address and the id of the unit whose
\* pass reports it.
Adopted(streamer, unit) ==
    [streamer EXCEPT !.ip_address = unit.ip_address,
                     !.compute_unit_id = unit.id]

\* A variant of the loop body that adds a row without looking one up.
UpsertCameraNoLookup(sess, unit, camera_data, assignments_data, t) ==
    LET streamer_uuid == Get(camera_data, "streamer_uuid", "")
        conv == convert_assignments_to_features(streamer_uuid, assignments_data)
        row == [NewStreamer(sess.streamers, streamer_uuid, "Camera", unit, t)
                   EXCEPT !.features = FeaturesColumn(conv.features)]
    IN IF streamer_uuid = "" THEN [raised |-> FALSE, flushFailed |-> FALSE, sess |-> sess]
       ELSE [raised |-> FALSE, flushFailed |-> FALSE,
             sess |-> [sess EXCEPT !.streamers = @ \cup {row}]]

\* A variant of the loop body that extends the stored feature list with the
\* derived features instead of replacing it.
UpsertCameraExtendsFeatures(sess, unit, camera_data, assignments_data, t) ==
    LET streamer_uuid == Get(camera_data, "streamer_uuid", "")
        found == {s \in sess.streamers : s.streamer_uuid = streamer_uuid}
        streamer ==
            IF found = {}
            THEN NewStreamer(sess.streamers, streamer_uuid,
                             Get(camera_data, "streamer_hr_name",
                                 "Camera " \o streamer_uuid), unit, t)
            ELSE CHOOSE s \in found : \A o \in found : s.id <= o.id
        conv == convert_assignments_to_features(streamer_uuid, assignments_data)
        final ==
            [streamer EXCEPT
                !.status = IF Get(camera_data, "is_alive", "0") = "1"
                           THEN "active" ELSE "inactive",
                !.is_alive = Get(camera_data, "is_alive", "0"),
                !.last_seen = t,
                !.features = FeaturesColumn(FeaturesList(@) \o conv.features)]
    IN IF streamer_uuid = "" \/ streamer_uuid = UuidJsonArray
       THEN [raised |-> streamer_uuid # "", flushFailed |-> FALSE, sess |-> sess]
       ELSE [raised |-> FALSE, flushFailed |-> FALSE,
             sess |-> [sess EXCEPT !.streamers = (@ \ {streamer}) \cup {final}]]

\* The lookup of line 87 first flushes the session (autoflush): if a pending
\* row is refused, the flush raises and the session's transaction is rolled
\* back and left inactive (flushFailed).
\* The body of the loop over the payload, lines 82-110, on the session's
\* view of the tables: the view afterwards, and whether the body raised.
UpsertCamera(sess, unit, camera_data, assignments_data, t) ==
    LET streamer_uuid == Get(camera_data, "streamer_uuid", "")
        found == {s \in sess.streamers : s.streamer_uuid = streamer_uuid}
        streamer ==
            IF found = {}
            THEN NewStreamer(sess.streamers, streamer_uuid,
                             Get(camera_data, "streamer_hr_name",
                                 "Camera " \o streamer_uuid), unit, t)
            ELSE CHOOSE s \in found : \A o \in found : s.id <= o.id
        updated ==
            [Adopted(streamer, unit) EXCEPT
                !.streamer_hr_name = Get(camera_data, "streamer_hr_name", @),
                !.status = IF Has(camera_data, "is_alive")
                              /\ camera_data["is_alive"] = "1"
                           THEN "active" ELSE "inactive",
                !.is_alive = Get(camera_data, "is_alive", "0"),
                !.last_seen = t]
        conv == convert_assignments_to_features(streamer_uuid, assignments_data)
        final == IF conv.raised THEN updated
                 ELSE WithFeatures(updated, conv.features)
    IN IF streamer_uuid = "" THEN [raised |-> FALSE, flushFailed |-> FALSE, sess |-> sess]
       ELSE IF FlushFails(sess)
       THEN [raised |-> TRUE, flushFailed |-> TRUE, sess |-> sess]
       ELSE IF streamer_uuid = UuidJsonArray
       THEN [raised |-> TRUE, flushFailed |-> FALSE, sess |-> sess]
       ELSE [raised |-> conv.raised, flushFailed |-> FALSE,
             sess |-> [sess EXCEPT !.streamers = (@ \ {streamer}) \cup {final}]]

\* for camera_data in cameras, from element i on.
RECURSIVE SyncLoop(_, _, _, _, _, _)
SyncLoop(sess, unit, cameras, i, assignments_data, t) ==
    IF i > Len(cameras) THEN [raised |-> FALSE, flushFailed |-> FALSE, sess |-> sess]
    ELSE LET r == UpsertCamera(sess, unit, cameras[i], assignments_data, t)
         IN IF r.raised THEN r
            ELSE SyncLoop(r.sess, unit, cameras, i + 1, assignments_data, t)

\* A variant of the end of the pass that also removes the rows of the unit
\* that the loop did not touch.
AfterLoopPrunes(st, unit, env, t, loop) ==
    IF loop.flushFailed
    THEN [raised |-> TRUE, inactive |-> TRUE, db |-> st.db, sess |-> st.db]
    ELSE IF loop.raised
    THEN [raised |-> TRUE, inactive |-> FALSE, db |-> st.db, sess |-> loop.sess]
    ELSE IF env.commitFails \/ FlushFails(loop.sess)
    THEN [raised |-> TRUE, inactive |-> FALSE, db |-> st.db, sess |-> st.db]
    ELSE LET marked ==
                 [loop.sess EXCEPT
                     !.units =
                         {IF u.id = unit.id
                          THEN [u EXCEPT !.status = "online", !.last_seen = t]
                          ELSE u : u \in @},
                     !.streamers =
                         {x \in @ : x.compute_unit_id = unit.id => x.last_seen = t}]
         IN [raised |-> FALSE, inactive |-> FALSE, db |-> marked, sess |-> marked]

\* Lines 112-121, once the loop over the payload has returned: the unit is
\* marked online and the session committed, unless the loop raised.  A commit
\* that raises rolls the session back and leaves it usable; inactive says
\* that a failed autoflush left the session unusable until a rollback.
AfterLoop(st, unit, env, t, loop) ==
    IF loop.flushFailed
    THEN [raised |-> TRUE, inactive |-> TRUE, db |-> st.db, sess |-> st.db]
    ELSE IF loop.raised
    THEN [raised |-> TRUE, inactive |-> FALSE, db |-> st.db, sess |-> loop.sess]
    ELSE IF env.commitFails \/ FlushFails(loop.sess)
    THEN [raised |-> TRUE, inactive |-> FALSE, db |-> st.db, sess |-> st.db]
    ELSE LET marked ==
                 [loop.sess EXCEPT !.units =
                     {IF u.id = unit.id
                      THEN [u EXCEPT !.status = "online", !.last_seen = t]
                      ELSE u : u \in @}]
         IN [raised |-> FALSE, inactive |-> FALSE, db |-> marked, sess |-> marked]

\* A variant of the pass that marks the unit online and commits when the
\* proxy answers with a status other than 200.
SyncMarksOnAnyStatus(st, unit_id, env, t) ==
    LET unit == UnitById(st.sess.units, unit_id) IN
    IF env.fetch = "exc"
    THEN [raised |-> TRUE, inactive |-> FALSE, db |-> st.db, sess |-> st.sess]
    ELSE IF env.fetch = "non200"
    THEN AfterLoop(st, unit, env, t,
                   [raised |-> FALSE, flushFailed |-> FALSE, sess |-> st.sess])
    ELSE AfterLoop(st, unit, env, t,
                   SyncLoop(st.sess, unit,
                            CamerasResource_get(unit.ip_address, env.device), 1,
                            fetch_app_assignments(env.asg), t))

\* _sync_cameras_from_unit.  st.db is the committed database and st.sess the
\* session's view of it (the database plus the pending changes).  env is what
\* the network and the database do during the pass:
\*   fetch       the request to the proxy: "ok", "non200", or "exc" when it
\*               raises (a timeout, a refused connection, a body that is not
\*               JSON);
\*   device      what the device answers the proxy;
\*   asg         what the device answers the assignments request;
\*   commitFails db.session.commit() raises and the session is rolled back.
sync_cameras_from_unit(st, unit_id, env, t) ==
    LET unit == UnitById(st.sess.units, unit_id) IN
    IF env.fetch = "exc"
    THEN [raised |-> TRUE, inactive |-> FALSE, db |-> st.db, sess |-> st.sess]
    ELSE IF env.fetch = "non200"
    THEN [raised |-> FALSE, inactive |-> FALSE, db |-> st.db, sess |-> st.sess]
    ELSE AfterLoop(st, unit, env, t,
                   SyncLoop(st.sess, unit,
                            CamerasResource_get(unit.ip_address, env.device), 1,
                            fetch_app_assignments(env.asg), t))

-----------------------------------------------------------------------------
(* api/compute_units.py: the request handlers *)

\* unit.to_dict(), with the cameras the handler puts in it.
UnitDict(unit, status, cameras) ==
    [id |-> unit.id, name |-> unit.name, ip_address |-> unit.ip_address,
     status |-> status, cameras |-> cameras]

\* A variant of the camera list of a unit that returns the rows as stored.
ListedCamerasAsStored(sess, unit_id) == CameraDicts(sess.streamers, unit_id)

\* Lines 47-53: the cameras of a unit as the list response shows them.
ListedCameras(sess, unit_id) ==
    LET dicts == CameraDicts(sess.streamers, unit_id)
    IN IF UnitById(sess.units, unit_id).status = "offline"
       THEN [i \in 1..Len(dicts) |->
                [dicts[i] EXCEPT !.status = "inactive", !.is_alive = "0"]]
       ELSE dicts

\* Lines 36-42 and 44-56, once the pass of an online unit has returned r:
\* the session afterwards, the unit's dict, and whether the except clause
\* raised, which ends the request with 500: the commit of line 41 raises when
\* the database refuses it or a pending row, and every use of an inactive
\* session raises.
AfterPass(unit, handlerCommitFails, r) ==
    IF ~r.raised
    THEN [failed |-> FALSE, st |-> [db |-> r.db, sess |-> r.sess],
          unit_dict |-> UnitDict(unit, unit.status, ListedCameras(r.sess, unit.id))]
    ELSE IF handlerCommitFails \/ r.inactive \/ FlushFails(r.sess)
    THEN [failed |-> TRUE, st |-> [db |-> r.db, sess |-> r.db],
          unit_dict |-> UnitDict(unit, "offline", <<>>)]
    ELSE LET offline ==
                 [r.sess EXCEPT !.units =
                     {IF u.id = unit.id THEN [u EXCEPT !.status = "offline"] ELSE u :
                          u \in @}]
         IN [failed |-> FALSE, st |-> [db |-> offline, sess |-> offline],
             unit_dict |-> UnitDict(unit, "offline", ListedCameras(offline, unit.id))]

\* A variant of the test of line 32 that reconciles every unit.
RunsPassAlways(unit) == TRUE

\* Line 32: if unit.status == 'online'
RunsPass(unit) == unit.status = "online"

\* Lines 31-56: the body of the loop over the units, for unit id.  envs[id]
\* is what happens during the pass of unit id; handlerCommitFails says
\* whether the commit of line 41 raises in this request.
ListUnit(st, id, envs, handlerCommitFails, t) ==
    LET unit == UnitById(st.sess.units, id)
    IN IF ~RunsPass(unit)
       THEN [failed |-> FALSE, st |-> st,
             unit_dict |-> UnitDict(unit, unit.status, ListedCameras(st.sess, id))]
       ELSE AfterPass(unit, handlerCommitFails,
                      sync_cameras_from_unit(st, id, envs[id], t))

\* ComputeUnitsResource.get, the loop from unit ids[i] on.  failed means that
\* the outer handler answered 500.
RECURSIVE ListFrom(_, _, _, _, _, _, _)
ListFrom(st, ids, i, envs, handlerCommitFails, t, result) ==
    IF i > Len(ids) THEN [failed |-> FALSE, db |-> st.db, result |-> result]
    ELSE LET s == ListUnit(st, ids[i], envs, handlerCommitFails, t)
         IN IF s.failed THEN [failed |-> TRUE, db |-> s.st.db, result |-> result]
            ELSE ListFrom(s.st, ids, i + 1, envs, handlerCommitFails, t,
                          Append(result, s.unit_dict))

\* The unit dict of unit id in a list response.
Reported(r, id) ==
    r.compute_units[CHOOSE i \in 1..Len(r.compute_units) : r.compute_units[i].id = id]

\* The passes a request ran to their end without raising, each as
\* <<unit id, what the network and the database did>>.
PassesOf(c, r) ==
    CASE c.op = "sync" ->
            IF r.code = 200 THEN {<<c.unit_id, c.env>>} ELSE {}
      [] c.op = "add" ->
            IF r.code = 201 /\ c.synced THEN {<<r.compute_unit.id, c.env>>} ELSE {}
      [] c.op = "list" ->
            IF r.code = 200
            THEN {<<id, c.envs[id]>> :
                     id \in {x \in DOMAIN c.envs : Reported(r, x).status = "online"}}
            ELSE {}
      [] OTHER -> {}

Db == [units |-> units, streamers |-> streamers]

\* GET /api/compute_units
List(Envs, maxOps) ==
    /\ now < maxOps
    /\ LET online == {u.id : u \in {x \in units : RunsPass(x)}} IN
       \E envs \in [online -> Envs], handlerCommitFails \in BOOLEAN :
          LET r == ListFrom([db |-> Db, sess |-> Db],
                            IdSeq({u.id : u \in units}), 1, envs,
                            handlerCommitFails, now + 1, <<>>)
          IN /\ units' = r.db.units
             /\ streamers' = r.db.streamers
             /\ call' = [op |-> "list", envs |-> envs,
                         handlerCommitFails |-> handlerCommitFails]
             /\ resp' = IF r.failed THEN [code |-> 500]
                        ELSE [code |-> 200, compute_units |-> r.result]
    /\ now' = now + 1
    /\ prevPasses' = PassesOf(call, resp)

\* A variant of the answer to a request that names no row: success.
NotFoundAnswersOk == [code |-> 200]

\* {'message': '... not found'}, 404: the answer of every handler whose
\* lookup (ComputeUnit.query.get, Streamer.query.filter_by(...).first())
\* finds no row.
NotFound == [code |-> 404]

\* A variant of the sync response that lists the cameras as they were
\* before the pass.
SyncResponseStale(before, r, unit_id) ==
    IF r.raised THEN [code |-> 500]
    ELSE [code |-> 200, cameras |-> CameraDicts(before.streamers, unit_id)]

\* Lines 347-354: the cameras queried after the pass, or 500 when it raised.
SyncResponse(before, r, unit_id) ==
    IF r.raised THEN [code |-> 500]
    ELSE [code |-> 200, cameras |-> CameraDicts(r.sess.streamers, unit_id)]

\* POST /api/compute_units/<unit_id>/cameras, lines 335-354: the pass runs
\* whatever the status of the unit.
Sync(Envs, maxOps) ==
    /\ now < maxOps
    /\ \E unit_id \in {u.id : u \in units} \cup {NextId(units)}, env \in Envs :
          /\ call' = [op |-> "sync", unit_id |-> unit_id, env |-> env,
                      was |-> IF \E u \in units : u.id = unit_id
                              THEN UnitById(units, unit_id).status
                              ELSE "none"]
          /\ IF unit_id \notin {u.id : u \in units}
             THEN /\ resp' = NotFound
                  /\ UNCHANGED <<units, streamers>>
             ELSE LET r == sync_cameras_from_unit([db |-> Db, sess |-> Db],
                                                  unit_id, env, now + 1)
                  IN /\ units' = r.db.units
                     /\ streamers' = r.db.streamers
                     /\ resp' = SyncResponse(Db, r, unit_id)
    /\ now' = now + 1
    /\ prevPasses' = PassesOf(call, resp)

\* A variant of the reachability test that lets every address through.
ReachableAlways(ping_result) == TRUE

\* Line 141: what the add handler reads from the probe's result.
Reachable(ping_result) == ping_result.reachable

\* Lines 160-171, once the pass on the new unit has returned r: the pass's own
\* exception is swallowed, but new_unit.to_dict() queries through the same
\* session, so a session the pass left unusable, or holding a row the
\* database refuses, ends in the outer handler: rollback and 500.
AddResponse(new_unit, r) ==
    IF r.inactive \/ (r.raised /\ FlushFails(r.sess))
    THEN [code |-> 500]
    ELSE [code |-> 201,
          compute_unit |->
              UnitDict(UnitById(r.sess.units, new_unit.id),
                       UnitById(r.sess.units, new_unit.id).status,
                       CameraDicts(r.sess.streamers, new_unit.id))]

\* POST /api/compute_units
Add(Addrs, Remotes, Envs, maxOps) ==
    /\ now < maxOps
    /\ \E ip_address \in Addrs, remote \in Remotes, env \in Envs :
          LET ping_result == ping_device_detailed(ip_address, remote)
              new_unit == NewUnit(units, ip_address, now + 1)
              created == [units |-> units \cup {new_unit}, streamers |-> streamers]
              r == sync_cameras_from_unit([db |-> created, sess |-> created],
                                          new_unit.id, env, now + 1)
          IN /\ call' = [op |-> "add", ip_address |-> ip_address,
                         reachable |-> ping_result.reachable, env |-> env,
                         synced |-> ~r.raised]
             /\ IF \E u \in units : u.ip_address = ip_address
                THEN /\ resp' = [code |-> 409]
                     /\ UNCHANGED <<units, streamers>>
                ELSE IF ~Reachable(ping_result)
                THEN /\ resp' = [code |-> 400]
                     /\ UNCHANGED <<units, streamers>>
                ELSE /\ units' = r.db.units
                     /\ streamers' = r.db.streamers
                     /\ resp' = AddResponse(new_unit, r)
    /\ now' = now + 1
    /\ prevPasses' = PassesOf(call, resp)

\* POST /api/compute_units handled by concurrent workers, first half (lines
\* 126-145): the lookup of the address and the probe.  Nothing is held
\* between this and the insert, so other requests run in between.
AddBegin(Addrs, Remotes, maxAdds) ==
    /\ Len(adds) < maxAdds
    /\ \E ip_address \in Addrs, remote \in Remotes :
          adds' = Append(adds,
             IF \E u \in units : u.ip_address = ip_address
             THEN [pc |-> "done", ip_address |-> ip_address,
                   registered |-> TRUE, code |-> 409]
             ELSE IF ~Reachable(ping_device_detailed(ip_address, remote))
             THEN [pc |-> "done", ip_address |-> ip_address,
                   registered |-> FALSE, code |-> 400]
             ELSE [pc |-> "probed", ip_address |-> ip_address,
                   registered |-> FALSE, code |-> 0])
    /\ UNCHANGED <<units, streamers, now, call, resp, prevPasses>>

\* Second half (lines 147-171): the insert and its commit, the pass and the
\* response.  ip_address is unique (models/compute_unit.py line 9): when
\* another request registered it in between, the commit of line 156 raises
\* IntegrityError and the outer handler rolls back and answers 500.
AddFinish(Envs) ==
    \E i \in DOMAIN adds, env \in Envs :
       LET ip_address == adds[i].ip_address
           new_unit == NewUnit(units, ip_address, now + 1)
           created == [units |-> units \cup {new_unit}, streamers |-> streamers]
           r == sync_cameras_from_unit([db |-> created, sess |-> created],
                                       new_unit.id, env, now + 1)
       IN /\ adds[i].pc = "probed"
          /\ IF \E u \in units : u.ip_address = ip_address
             THEN /\ adds' = [adds EXCEPT ![i].pc = "done",
                                          ![i].registered = TRUE,
                                          ![i].code = 500]
                  /\ UNCHANGED <<units, streamers>>
             ELSE /\ adds' = [adds EXCEPT ![i].pc = "done",
                                          ![i].code = AddResponse(new_unit, r).code]
                  /\ units' = r.db.units
                  /\ streamers' = r.db.streamers
          /\ now' = now + 1
          /\ UNCHANGED <<call, resp, prevPasses>>

\* The ids a request may name: those of the rows, and one that no row has.
NamedIds == {u.id : u \in units} \cup {NextId(units)}

\* A variant of the status update that refreshes last_seen whatever the
\* status.
WithStatusSeen(unit, status, t) ==
    [unit EXCEPT !.status = status, !.last_seen = t]

\* unit with the status of a request body, and last_seen when it is 'online'
\* (lines 231-235 and 295-302).
WithStatus(unit, status, t) ==
    [unit EXCEPT !.status = status,
                 !.last_seen = IF status = "online" THEN t ELSE @]

\* A variant of the streamers a delete takes with the unit: every row.
OwnedByAnyone(rows, unit_id) == rows

\* A variant of the streamers a delete takes with the unit: none.
OwnedNone(rows, unit_id) == {}

\* Line 262: Streamer.query.filter_by(compute_unit_id=unit_id).all()
OwnedBy(rows, unit_id) == {s \in rows : s.compute_unit_id = unit_id}

\* DELETE /api/compute_units/<unit_id>, lines 251-281: the unit and every
\* streamer that references it, in one commit.
Delete(maxOps) ==
    /\ now < maxOps
    /\ \E unit_id \in NamedIds, commitFails \in BOOLEAN :
          LET owned == OwnedBy(streamers, unit_id) IN
          /\ call' = [op |-> "delete", unit_id |-> unit_id,
                      commitFails |-> commitFails]
          /\ IF unit_id \notin {u.id : u \in units}
             THEN /\ resp' = NotFound
                  /\ UNCHANGED <<units, streamers>>
             ELSE IF commitFails
             THEN /\ resp' = [code |-> 500]
                  /\ UNCHANGED <<units, streamers>>
             ELSE /\ units' = units \ {UnitById(units, unit_id)}
                  /\ streamers' = streamers \ owned
                  /\ resp' = [code |-> 200,
                              deleted_streamers_count |-> Cardinality(owned)]
    /\ now' = now + 1
    /\ prevPasses' = PassesOf(call, resp)

\* PUT /api/compute_units/<unit_id>/status, lines 215-243.
SetStatus(Datas, maxOps) ==
    /\ now < maxOps
    /\ \E unit_id \in NamedIds, data \in Datas :
          /\ call' = [op |-> "set_status", unit_id |-> unit_id, data |-> data]
          /\ IF unit_id \notin {u.id : u \in units}
             THEN /\ resp' = NotFound
                  /\ UNCHANGED units
             ELSE IF data = EmptyDict \/ ~Has(data, "status")
             THEN /\ resp' = [code |-> 400]
                  /\ UNCHANGED units
             ELSE LET unit == UnitById(units, unit_id)
                      set == WithStatus(unit, data.status, now + 1)
                  IN /\ units' = (units \ {unit}) \cup {set}
                     /\ resp' = [code |-> 200,
                                 compute_unit |->
                                     UnitDict(set, set.status,
                                              CameraDicts(streamers, unit_id))]
    /\ UNCHANGED streamers
    /\ now' = now + 1
    /\ prevPasses' = PassesOf(call, resp)

\* PUT /api/compute_units/<unit_id>, lines 283-310: status and name are
\* each taken from the body when it has them; a body without data changes
\* nothing and is answered 200 all the same.
Update(Datas, maxOps) ==
    /\ now < maxOps
    /\ \E unit_id \in NamedIds, data \in Datas :
          /\ call' = [op |-> "update", unit_id |-> unit_id, data |-> data]
          /\ IF unit_id \notin {u.id : u \in units}
             THEN /\ resp' = NotFound
                  /\ UNCHANGED units
             ELSE LET unit == UnitById(units, unit_id)
                      stat == IF Has(data, "status")
                              THEN WithStatus(unit, data.status, now + 1)
                              ELSE unit
                      set == [stat EXCEPT !.name = Get(data, "name", @)]
                  IN /\ units' = (units \ {unit}) \cup {set}
                     /\ resp' = [code |-> 200,
                                 compute_unit |->
                                     UnitDict(set, set.status,
                                              CameraDicts(streamers, unit_id))]
    /\ UNCHANGED streamers
    /\ now' = now + 1
    /\ prevPasses' = PassesOf(call, resp)

\* GET /api/compute_units/<unit_id>/cameras, lines 318-333.
ListCameras(maxOps) ==
    /\ now < maxOps
    /\ \E unit_id \in NamedIds :
          /\ call' = [op |-> "list_cameras", unit_id |-> unit_id]
          /\ resp' = IF unit_id \notin {u.id : u \in units}
                     THEN NotFound
                     ELSE [code |-> 200,
                           cameras |-> CameraDicts(streamers, unit_id)]
    /\ UNCHANGED <<units, streamers>>
    /\ now' = now + 1
    /\ prevPasses' = PassesOf(call, resp)

\* PUT /api/streamers/<streamer_uuid>, lines 358-391: the display name of one
\* streamer.
Rename(Uuids, Datas, maxOps) ==
    /\ now < maxOps
    /\ \E streamer_uuid \in Uuids, data \in Datas :
          /\ call' = [op |-> "rename", streamer_uuid |-> streamer_uuid,
                      data |-> data]
          /\ IF ~\E s \in streamers : s.streamer_uuid = streamer_uuid
             THEN /\ resp' = NotFound
                  /\ UNCHANGED streamers
             ELSE IF data = EmptyDict \/ ~Has(data, "name")
             THEN /\ resp' = [code |-> 400]
                  /\ UNCHANGED streamers
             ELSE LET streamer == CHOOSE x \in streamers :
                                     x.streamer_uuid = streamer_uuid
                      set == [streamer EXCEPT !.streamer_hr_name = data.name]
                  IN /\ streamers' = (streamers \ {streamer}) \cup {set}
                     /\ resp' = [code |-> 200, streamer |-> StreamerDict(set)]
    /\ UNCHANGED units
    /\ now' = now + 1
    /\ prevPasses' = PassesOf(call, resp)

-----------------------------------------------------------------------------
(* api/streamers.py and api/favorites.py: the request handlers *)

\* compute_unit_id of a streamer that no unit owns (NULL).
NoOwner == 0
\* ip_address of a streamer added without one (NULL).
NoAddress == <<>>

RequiredFields ==
    {"streamer_uuid", "streamer_type", "streamer_hr_name",
     "config_template_name", "is_alive"}

\* POST /api/streamers/add_streamer, StreamersResource.post lines 73-104: a
\* row with the liveness of the body and the defaults of Streamer.__init__
\* (status 'inactive', no owner, no features).  streamer_uuid is unique: the
\* commit of a second row under the same identifier raises.
StreamerAdd(Datas, maxOps) ==
    /\ now < maxOps
    /\ \E data \in Datas :
          /\ call' = [op |-> "streamer_add", data |-> data]
          /\ IF ~(RequiredFields \subseteq DOMAIN data)
             THEN /\ resp' = [code |-> 400]
                  /\ UNCHANGED streamers
             ELSE IF \E s \in streamers : s.streamer_uuid = data.streamer_uuid
             THEN /\ resp' = [code |-> 500]
                  /\ UNCHANGED streamers
             ELSE LET streamer ==
                         [id |-> NextId(streamers),
                          streamer_uuid |-> data.streamer_uuid,
                          streamer_type |-> data.streamer_type,
                          streamer_hr_name |-> data.streamer_hr_name,
                          config_template_name |-> data.config_template_name,
                          is_alive |-> data.is_alive,
                          ip_address |-> Get(data, "ip_address", NoAddress),
                          compute_unit_id |-> NoOwner,
                          status |-> "inactive",
                          last_seen |-> now + 1,
                          created_at |-> now + 1,
                          features |-> NoneFeatures]
                  IN /\ streamers' = streamers \cup {streamer}
                     /\ resp' = [code |-> 201, id |-> streamer.id]
    /\ UNCHANGED units
    /\ now' = now + 1
    /\ prevPasses' = PassesOf(call, resp)

\* PUT /api/streamers/add_streamer, StreamersResource.put lines 106-135: the
\* liveness flag of the row with the id of the body.
StreamerLiveness(Datas, maxOps) ==
    /\ now < maxOps
    /\ \E data \in Datas :
          /\ call' = [op |-> "streamer_liveness", data |-> data]
          /\ IF Get(data, "id", 0) = 0
             THEN /\ resp' = [code |-> 400]
                  /\ UNCHANGED streamers
             ELSE IF ~\E s \in streamers : s.id = data.id
             THEN /\ resp' = NotFound
                  /\ UNCHANGED streamers
             ELSE LET streamer == CHOOSE x \in streamers : x.id = data.id
                      set == [streamer EXCEPT !.is_alive = Get(data, "is_alive", @)]
                  IN /\ streamers' = (streamers \ {streamer}) \cup {set}
                     /\ resp' = [code |-> 200, id |-> set.id,
                                 is_alive |-> set.is_alive]
    /\ UNCHANGED units
    /\ now' = now + 1
    /\ prevPasses' = PassesOf(call, resp)

FavoriteFields ==
    {"streamerUuid", "streamerHrName", "streamerType", "configTemplateName",
     "computeUnitIP"}

\* POST /api/favorites, FavoriteStreamersResource.post lines 29-65.
FavoriteAdd(Datas, maxOps) ==
    /\ now < maxOps
    /\ \E data \in Datas :
          /\ call' = [op |-> "favorite_add", data |-> data]
          /\ IF \E f \in FavoriteFields : Get(data, f, "") = ""
             THEN /\ resp' = [code |-> 400]
                  /\ UNCHANGED favorites
             ELSE IF \E x \in favorites : x.streamer_uuid = data.streamerUuid
             THEN /\ resp' = [code |-> 409]
                  /\ UNCHANGED favorites
             ELSE /\ favorites' = favorites \cup
                        {[id |-> NextId(favorites),
                          streamer_uuid |-> data.streamerUuid,
                          streamer_hr_name |-> data.streamerHrName,
                          streamer_type |-> data.streamerType,
                          config_template_name |-> data.configTemplateName,
                          compute_unit_ip |-> data.computeUnitIP,
                          added_at |-> now + 1]}
                  /\ resp' = [code |-> 201, streamerUuid |-> data.streamerUuid]
    /\ UNCHANGED <<units, streamers>>
    /\ now' = now + 1
    /\ prevPasses' = PassesOf(call, resp)

\* DELETE /api/favorites/<streamer_uuid>, FavoriteStreamerResource.delete
\* lines 73-90.
FavoriteRemove(Uuids, maxOps) ==
    /\ now < maxOps
    /\ \E streamer_uuid \in Uuids :
          /\ call' = [op |-> "favorite_remove", streamer_uuid |-> streamer_uuid]
          /\ favorites' = {x \in favorites : x.streamer_uuid # streamer_uuid}
          /\ resp' = IF \E x \in favorites : x.streamer_uuid = streamer_uuid
                     THEN [code |-> 200] ELSE NotFound
    /\ UNCHANGED <<units, streamers>>
    /\ now' = now + 1
    /\ prevPasses' = PassesOf(call, resp)

-----------------------------------------------------------------------------
(* api/compute_units.py: sync and delete requests that overlap *)

\* app.run(debug=True) serves each request in a thread of its own, with a
\* session of its own, on one SQLite file.  A session reads what is committed
\* at the time of each SELECT and writes at its commit, in one transaction.
\* flights holds the requests that have read and not yet answered.

\* The row an UPDATE leaves: the columns whose value the session changed are
\* written over the row as it now is, the others are left.
Written(cur, loaded, set) ==
    [a \in DOMAIN cur |-> IF set[a] # loaded[a] THEN set[a] ELSE cur[a]]

\* POST /api/compute_units/<unit_id>/cameras, up to the lookup of line 87:
\* the unit is loaded (line 338), the inventory and the assignments are
\* fetched (lines 68-77) and the rows of the inventory's identifiers are
\* looked up.  The payloads have at most one entry, so this is the one lookup
\* of the pass and nothing has been written yet.
PassBegin(Envs, maxFlights) ==
    /\ Len(flights) < maxFlights
    /\ \E unit_id \in NamedIds, env \in Envs :
          flights' = Append(flights,
             IF unit_id \notin {u.id : u \in units}
             THEN [op |-> "sync", pc |-> "done", unit_id |-> unit_id,
                   env |-> env, code |-> NotFound.code]
             ELSE [op |-> "sync", pc |-> "looked", unit_id |-> unit_id,
                   env |-> env, code |-> 0,
                   unit |-> UnitById(units, unit_id),
                   seen |-> LET cameras ==
                                    CamerasResource_get(
                                       UnitById(units, unit_id).ip_address,
                                       env.device)
                            IN {s \in streamers :
                                   \E k \in 1..Len(cameras) :
                                      Get(cameras[k], "streamer_uuid", "")
                                         = s.streamer_uuid}])
    /\ UNCHANGED <<units, streamers, now, call, resp, prevPasses>>

\* The rest of the request (lines 89-116 and 344-354): the pass works on the
\* rows it loaded and its commit writes them in one transaction, an INSERT
\* for a row the lookup did not find, an UPDATE by primary key for one it
\* found, and the UPDATE of the unit.  The INSERT of an identifier that has a
\* row by now violates the unique constraint (models/streamer.py line 8) and
\* an UPDATE that matches no row raises StaleDataError; either rolls the
\* transaction back and the request is answered 500.
PassCommit ==
    \E i \in DOMAIN flights :
       LET f == flights[i]
           t == now + 1
           loaded == [units |-> {f.unit}, streamers |-> f.seen]
           r == sync_cameras_from_unit([db |-> loaded, sess |-> loaded],
                                       f.unit_id, f.env, t)
           seenIds == {s.id : s \in f.seen}
           inserts == {w \in r.db.streamers : w.id \notin seenIds}
           updates == {w \in r.db.streamers : w.id \in seenIds}
           refused ==
               \/ r.raised
               \/ \E w \in inserts :
                     \E c \in streamers : c.streamer_uuid = w.streamer_uuid
               \/ \E w \in updates : \A c \in streamers : c.id # w.id
               \/ \A u \in units : u.id # f.unit_id
       IN /\ f.op = "sync" /\ f.pc = "looked"
          /\ IF refused
             THEN /\ flights' = [flights EXCEPT ![i].pc = "done", ![i].code = 500]
                  /\ UNCHANGED <<units, streamers>>
             ELSE /\ flights' = [flights EXCEPT ![i].pc = "done", ![i].code = 200]
                  /\ streamers' =
                        {c \in streamers : c.id \notin {w.id : w \in updates}}
                        \cup {Written(CHOOSE c \in streamers : c.id = w.id,
                                      CHOOSE o \in f.seen : o.id = w.id, w) :
                                 w \in updates}
                        \cup {[w EXCEPT !.id = NextId(streamers)] : w \in inserts}
                  /\ units' =
                        {IF u.id = f.unit_id
                         THEN Written(u, f.unit, UnitById(r.db.units, f.unit_id))
                         ELSE u : u \in units}
          /\ now' = now + 1
          /\ UNCHANGED <<call, resp, prevPasses>>

\* DELETE /api/compute_units/<unit_id>, lines 254-269: the unit is loaded,
\* its streamers are queried (line 262) and they and the unit are marked for
\* deletion.
DeleteRead(maxFlights) ==
    /\ Len(flights) < maxFlights
    /\ \E unit_id \in NamedIds :
          flights' = Append(flights,
             IF unit_id \notin {u.id : u \in units}
             THEN [op |-> "delete", pc |-> "done", unit_id |-> unit_id,
                   code |-> NotFound.code]
             ELSE [op |-> "delete", pc |-> "read", unit_id |-> unit_id,
                   code |-> 0,
                   listed |-> {s.id : s \in OwnedBy(streamers, unit_id)},
                   children |-> {}])
    /\ UNCHANGED <<units, streamers, now, call, resp, prevPasses>>

\* db.session.commit() of line 270, first half: the flush of a deleted
\* ComputeUnit loads its streamers collection (models/compute_unit.py line
\* 16, a relationship without delete cascade) to detach the children that are
\* not deleted themselves.
DeleteLoad ==
    \E i \in DOMAIN flights :
       /\ flights[i].op = "delete" /\ flights[i].pc = "read"
       /\ flights' = [flights EXCEPT
                         ![i].pc = "loaded",
                         ![i].children =
                            {s.id : s \in OwnedBy(streamers, flights[i].unit_id)}]
       /\ UNCHANGED <<units, streamers, now, call, resp, prevPasses>>

\* Second half: the transaction.  The children that were loaded and are not
\* marked get compute_unit_id NULL by primary key (StaleDataError, rollback
\* and 500 if one has no row by now); the marked streamers and the unit are
\* deleted by primary key, and a DELETE that matches no row only warns.  The
\* database does not enforce the foreign key (SQLite, no PRAGMA foreign_keys),
\* so rows that name the unit and were not loaded stay as they are.
DeleteCommit ==
    \E i \in DOMAIN flights :
       LET f == flights[i]
           detached == f.children \ f.listed
       IN /\ f.op = "delete" /\ f.pc = "loaded"
          /\ IF \E id \in detached : \A c \in streamers : c.id # id
             THEN /\ flights' = [flights EXCEPT ![i].pc = "done", ![i].code = 500]
                  /\ UNCHANGED <<units, streamers>>
             ELSE /\ flights' = [flights EXCEPT ![i].pc = "done", ![i].code = 200]
                  /\ streamers' =
                        {IF c.id \in detached
                         THEN [c EXCEPT !.compute_unit_id = NoOwner]
                         ELSE c : c \in {x \in streamers : x.id \notin f.listed}}
                  /\ units' = {u \in units : u.id # f.unit_id}
          /\ now' = now + 1
          /\ UNCHANGED <<call, resp, prevPasses>>

-----------------------------------------------------------------------------
(* What the network and the database may do during a pass *)

\* What a device may answer the proxy: a transport failure (ConnectionError,
\* Timeout), a non-200 status, or a payload of at most n entries.
Devices(Kinds, Entries, n) ==
    {[kind |-> k] : k \in Kinds}
        \cup {[kind |-> "ok", payload |-> p] : p \in SeqsUpTo(Entries, n)}

ActiveFor(u) ==
    [streamer_uuid |-> u, app_name |-> "motion",
     app_config_template_name |-> "default", is_active |-> PyStr("true")]

SyncEnvs(Devs, Asgs) ==
    {[fetch |-> "ok", device |-> d, asg |-> a, commitFails |-> c] :
        d \in Devs, a \in Asgs, c \in BOOLEAN}
    \cup
    {[fetch |-> f, device |-> d, asg |-> [kind |-> "fail"], commitFails |-> FALSE] :
        f \in {"exc", "non200"},
        d \in {x \in Devs : x.kind # "ok" \/ x.payload = <<>>}}

-----------------------------------------------------------------------------
(* The registry with two devices *)

\* Requests handled in a behaviour, and the longest payload a device reports.
FleetMaxOps == 3
FleetMaxPayload == 1

FleetAddrs == {Addr1, Addr2}
FleetEntries == {[streamer_uuid |-> u, is_alive |-> a] : u \in {"c1", "c2"}, a \in {"1", "0"}}
FleetDevices == Devices({"ConnectionError", "Timeout"}, FleetEntries, FleetMaxPayload)
FleetAsgs == {[kind |-> "fail"]}
FleetEnvs == SyncEnvs(FleetDevices, FleetAsgs)
FleetPings ==
    {[kind |-> "ConnectTimeout"],
     [kind |-> "response", status_code |-> 200,
      body |-> [json |-> TRUE, isdict |-> TRUE, data |-> [msg |-> "pong"]]]}

-----------------------------------------------------------------------------
(* One device, with every shape of payload and of assignment list *)

\* Requests handled in a behaviour, and the longest payload the device reports.
UnitMaxOps == 2
UnitMaxPayload == 2

UnitAddrs == {Addr1}
UnitEntries ==
    {[streamer_uuid |-> "c1", streamer_hr_name |-> "A", is_alive |-> "1"],
     [streamer_uuid |-> "c1", is_alive |-> "0"],
     [streamer_uuid |-> "c1", streamer_hr_name |-> ""],
     [streamer_uuid |-> "c2", streamer_hr_name |-> "A", is_alive |-> "1"],
     [streamer_hr_name |-> "A", is_alive |-> "1"],
     [streamer_uuid |-> UuidJsonArray, is_alive |-> "1"]}
UnitDevices ==
    Devices({"ConnectionError", "Timeout", "status"}, UnitEntries, UnitMaxPayload)
UnitAsgs ==
    {[kind |-> "fail"],
     [kind |-> "ok", assignments |-> <<ActiveFor("c1")>>],
     [kind |-> "ok", assignments |-> <<NonDict>>]}
UnitEnvs == SyncEnvs(UnitDevices, UnitAsgs)

-----------------------------------------------------------------------------
(* One device and the administrative requests *)

\* Requests handled in a behaviour.
AdminMaxOps == 3

AdminAddrs == {Addr1, Addr2}
\* What the device reports: a camera with an empty name, one without a name,
\* two cameras, and a camera whose name is JSON null ahead of another one.
AdminPayloads ==
    {<<[streamer_uuid |-> "c1", streamer_hr_name |-> ""]>>,
     <<[streamer_uuid |-> "c1", is_alive |-> "1"]>>,
     <<[streamer_uuid |-> "c1", streamer_hr_name |-> "A", is_alive |-> "1"],
       [streamer_uuid |-> "c2", streamer_hr_name |-> "B", is_alive |-> "0"]>>,
     <<[streamer_uuid |-> "c2", streamer_hr_name |-> NullName],
       [streamer_uuid |-> "c1", streamer_hr_name |-> "A", is_alive |-> "1"]>>}
AdminEnvs ==
    {[fetch |-> "ok", device |-> [kind |-> "ok", payload |-> p],
      asg |-> [kind |-> "fail"], commitFails |-> FALSE] : p \in AdminPayloads}
    \cup
    {[fetch |-> "exc", device |-> [kind |-> "ConnectionError"],
      asg |-> [kind |-> "fail"], commitFails |-> FALSE],
     [fetch |-> "ok",
      device |-> [kind |-> "ok",
                  payload |-> <<[streamer_uuid |-> "c1", is_alive |-> "1"]>>],
      asg |-> [kind |-> "ok", assignments |-> <<ActiveFor("c1")>>],
      commitFails |-> FALSE]}

\* The bodies of the status and update requests, and of the rename request.
AdminStatuses == {"online", "offline", "maintenance"}
StatusDatas == {EmptyDict} \cup {[status |-> x] : x \in AdminStatuses}
UpdateDatas ==
    StatusDatas \cup {[name |-> <<"Rack 1">>],
                      [status |-> "offline", name |-> <<"Rack 1">>]}
AdminUuids == {"c1", "c2", "c9"}
RenameDatas == {EmptyDict, [name |-> "N"]}
\* The bodies of the streamer and favorite requests.
StreamerDatas ==
    {[streamer_uuid |-> "c1", streamer_type |-> "io",
      streamer_hr_name |-> "Gate", config_template_name |-> "default",
      is_alive |-> "1"],
     [streamer_uuid |-> "c1"]}
LivenessDatas ==
    {EmptyDict, [id |-> 1], [id |-> 1, is_alive |-> "0"],
     [id |-> 1, is_alive |-> "1"], [id |-> 9, is_alive |-> "1"]}
FavoriteDatas ==
    {[streamerUuid |-> "c1", streamerHrName |-> "Gate",
      streamerType |-> "camera", configTemplateName |-> "default",
      computeUnitIP |-> Addr1],
     [streamerUuid |-> "c1"]}

-----------------------------------------------------------------------------
(* Add requests that overlap *)

\* Add requests in a behaviour.
RaceMaxAdds == 3

RaceEnvs ==
    {e \in AdminEnvs : e.fetch = "exc" \/ Len(e.device.payload) = 2}

-----------------------------------------------------------------------------
(* Sync and delete requests that overlap *)

\* Add requests handled in a behaviour, and sync and delete requests started.
FlightMaxAdds == 2
FlightMaxFlights == 3

\* The device is down during an add; during a sync it reports one camera.
FlightAddEnvs == {e \in AdminEnvs : e.fetch = "exc"}
FlightEnvs ==
    {[fetch |-> "ok",
      device |-> [kind |-> "ok",
                  payload |-> <<[streamer_uuid |-> "c1", is_alive |-> a]>>],
      asg |-> [kind |-> "fail"], commitFails |-> FALSE] : a \in {"1", "0"}}

-----------------------------------------------------------------------------
(* Two devices that may report the same camera *)

\* Requests handled in a behaviour.
MoveMaxOps == 4

MoveEnvs ==
    {e \in AdminEnvs : e.fetch = "exc" \/ Len(e.device.payload) = 1}
MovePings == {p \in FleetPings : p.kind = "response"}

-----------------------------------------------------------------------------
(* Specifications *)

NoCall == [op |-> "none"]
\* No add request is being handled concurrently.
NoAdds == <<>>
\* No pass and no delete is being handled concurrently.
NoFlights == <<>>
NoResp == [code |-> 0]

\* No request handled, empty tables; ping_device_detailed is about to be
\* called on some address with some remote behaviour.
InitPing ==
    /\ units = {} /\ streamers = {} /\ now = 0
    /\ call = NoCall /\ resp = NoResp /\ prevPasses = {}
    /\ adds = NoAdds /\ favorites = {} /\ flights = NoFlights
    /\ featArgs = NoFeat /\ featResult = NoFeat
    /\ pingResult = NoPing
    /\ pingArgs \in PingInputs

NextPing == Ping /\ UNCHANGED <<dbVars, featVars, adds, favorites, flights>>
SpecPing == InitPing /\ [][NextPing]_vars

\* No request handled, empty tables; _convert_assignments_to_features is
\* about to be called on some identifier and assignment list.
InitFeatures ==
    /\ units = {} /\ streamers = {} /\ now = 0
    /\ call = NoCall /\ resp = NoResp /\ prevPasses = {}
    /\ adds = NoAdds /\ favorites = {} /\ flights = NoFlights
    /\ pingArgs = NoPing /\ pingResult = NoPing
    /\ featResult = NoFeat
    /\ featArgs \in FeatInputs

NextFeatures == Convert /\ UNCHANGED <<dbVars, pingVars, adds, favorites, flights>>
SpecFeatures == InitFeatures /\ [][NextFeatures]_vars

\* The registry after db.create_all(): no unit, no streamer, no request yet.
Init ==
    /\ units = {} /\ streamers = {} /\ now = 0
    /\ call = NoCall /\ resp = NoResp /\ prevPasses = {}
    /\ adds = NoAdds /\ favorites = {} /\ flights = NoFlights
    /\ pingArgs = NoPing /\ pingResult = NoPing
    /\ featArgs = NoFeat /\ featResult = NoFeat

FleetAdd == Add(FleetAddrs, FleetPings, FleetEnvs, FleetMaxOps) /\ UNCHANGED <<pingVars, featVars, adds, favorites, flights>>
FleetList == List(FleetEnvs, FleetMaxOps) /\ UNCHANGED <<pingVars, featVars, adds, favorites, flights>>
FleetSync == Sync(FleetEnvs, FleetMaxOps) /\ UNCHANGED <<pingVars, featVars, adds, favorites, flights>>

Next == FleetAdd \/ FleetList \/ FleetSync
Spec == Init /\ [][Next]_vars

UnitAdd == Add(UnitAddrs, FleetPings, UnitEnvs, UnitMaxOps) /\ UNCHANGED <<pingVars, featVars, adds, favorites, flights>>
UnitList == List(UnitEnvs, UnitMaxOps) /\ UNCHANGED <<pingVars, featVars, adds, favorites, flights>>
UnitSync == Sync(UnitEnvs, UnitMaxOps) /\ UNCHANGED <<pingVars, featVars, adds, favorites, flights>>

NextUnit == UnitAdd \/ UnitList \/ UnitSync
SpecUnit == Init /\ [][NextUnit]_vars

AdminAdd == Add(AdminAddrs, FleetPings, AdminEnvs, AdminMaxOps) /\ UNCHANGED <<pingVars, featVars, adds, favorites, flights>>
AdminList == List(AdminEnvs, AdminMaxOps) /\ UNCHANGED <<pingVars, featVars, adds, favorites, flights>>
AdminSync == Sync(AdminEnvs, AdminMaxOps) /\ UNCHANGED <<pingVars, featVars, adds, favorites, flights>>
AdminDelete == Delete(AdminMaxOps) /\ UNCHANGED <<pingVars, featVars, adds, favorites, flights>>
AdminSetStatus == SetStatus(StatusDatas, AdminMaxOps) /\ UNCHANGED <<pingVars, featVars, adds, favorites, flights>>
AdminUpdate == Update(UpdateDatas, AdminMaxOps) /\ UNCHANGED <<pingVars, featVars, adds, favorites, flights>>
AdminListCameras == ListCameras(AdminMaxOps) /\ UNCHANGED <<pingVars, featVars, adds, favorites, flights>>
AdminRename == Rename(AdminUuids, RenameDatas, AdminMaxOps) /\ UNCHANGED <<pingVars, featVars, adds, favorites, flights>>
AdminStreamerAdd == StreamerAdd(StreamerDatas, AdminMaxOps) /\ UNCHANGED <<pingVars, featVars, adds, favorites, flights>>
AdminStreamerLiveness == StreamerLiveness(LivenessDatas, AdminMaxOps) /\ UNCHANGED <<pingVars, featVars, adds, favorites, flights>>
AdminFavoriteAdd == FavoriteAdd(FavoriteDatas, AdminMaxOps) /\ UNCHANGED <<pingVars, featVars, adds, flights>>
AdminFavoriteRemove == FavoriteRemove(AdminUuids, AdminMaxOps) /\ UNCHANGED <<pingVars, featVars, adds, flights>>

NextAdmin ==
    \/ AdminAdd \/ AdminList \/ AdminSync \/ AdminDelete
    \/ AdminSetStatus \/ AdminUpdate \/ AdminListCameras \/ AdminRename
    \/ AdminStreamerAdd \/ AdminStreamerLiveness
    \/ AdminFavoriteAdd \/ AdminFavoriteRemove
SpecAdmin == Init /\ [][NextAdmin]_vars

RaceBegin == AddBegin(FleetAddrs, FleetPings, RaceMaxAdds) /\ UNCHANGED <<pingVars, featVars, favorites, flights>>
RaceFinish == AddFinish(RaceEnvs) /\ UNCHANGED <<pingVars, featVars, favorites, flights>>

MoveAdd == Add(FleetAddrs, MovePings, MoveEnvs, MoveMaxOps) /\ UNCHANGED <<pingVars, featVars, adds, favorites, flights>>
MoveList == List(MoveEnvs, MoveMaxOps) /\ UNCHANGED <<pingVars, featVars, adds, favorites, flights>>
MoveSync == Sync(MoveEnvs, MoveMaxOps) /\ UNCHANGED <<pingVars, featVars, adds, favorites, flights>>

NextMove == MoveAdd \/ MoveList \/ MoveSync
SpecMove == Init /\ [][NextMove]_vars

NextRace == RaceBegin \/ RaceFinish
SpecRace == Init /\ [][NextRace]_vars

FlightAdd == Add(UnitAddrs, FleetPings, FlightAddEnvs, FlightMaxAdds) /\ UNCHANGED <<pingVars, featVars, adds, favorites, flights>>
FlightPassBegin == PassBegin(FlightEnvs, FlightMaxFlights) /\ UNCHANGED <<pingVars, featVars, adds, favorites>>
FlightPassCommit == PassCommit /\ UNCHANGED <<pingVars, featVars, adds, favorites>>
FlightDeleteRead == DeleteRead(FlightMaxFlights) /\ UNCHANGED <<pingVars, featVars, adds, favorites>>
FlightDeleteLoad == DeleteLoad /\ UNCHANGED <<pingVars, featVars, adds, favorites>>
FlightDeleteCommit == DeleteCommit /\ UNCHANGED <<pingVars, featVars, adds, favorites>>

NextFlight ==
    \/ FlightAdd \/ FlightPassBegin \/ FlightPassCommit
    \/ FlightDeleteRead \/ FlightDeleteLoad \/ FlightDeleteCommit
SpecFlight == Init /\ [][NextFlight]_vars

-----------------------------------------------------------------------------
(* Claims about the list operation and the reconciliation pass *)

\* The device did not answer the streamer request: refused, or timed out.
DeviceDown(env) == env.device.kind \in {"ConnectionError", "Timeout"}

\* Every camera of a unit dict is shown inactive with liveness cleared.
AllShownInactive(unit_dict) ==
    \A i \in 1..Len(unit_dict.cameras) :
        /\ unit_dict.cameras[i].status = "inactive"
        /\ unit_dict.cameras[i].is_alive = "0"

\* Unit id is persisted offline, all its streamers inactive and not alive.
Cascaded(U, S, id) ==
    /\ UnitById(U, id).status = "offline"
    /\ \A s \in S : s.compute_unit_id = id =>
          s.status = "inactive" /\ s.is_alive # "1"

\* C1: after a unit was added and reconciled so that its streamers are
\* persisted active, if the device is then unreachable, the next list call
\* returns the unit offline and every one of its streamers inactive.  (Stated
\* for a database that commits.)
C1_ListAfterUnplug ==
    [][(call'.op = "list" /\ ~call'.handlerCommitFails) =>
          \A u \in units :
              (/\ u.status = "online"
               /\ CamerasOf(streamers, u.id) # {}
               /\ \A s \in CamerasOf(streamers, u.id) : s.status = "active"
               /\ DeviceDown(call'.envs[u.id])
               /\ ~call'.envs[u.id].commitFails)
              => /\ resp'.code = 200
                 /\ Reported(resp', u.id).status = "offline"
                 /\ AllShownInactive(Reported(resp', u.id))]_vars

\* C2: if the streamer-inventory transport call of a pass fails, whether the
\* pass was started by list or by sync, then when the pass ends the unit is
\* persisted offline and every streamer it owns is persisted inactive with
\* liveness cleared.  (Stated for a database that commits.)
C2_OfflineCascadePersisted ==
    [][/\ (call'.op = "sync" /\ resp'.code # 404 /\ call'.env.fetch = "exc")
            => Cascaded(units', streamers', call'.unit_id)
       /\ (call'.op = "list" /\ ~call'.handlerCommitFails)
            => \A id \in DOMAIN call'.envs :
                   call'.envs[id].fetch = "exc" => Cascaded(units', streamers', id)]_vars

\* C3: in every list response, a unit reported offline has every one of its
\* cameras reported inactive with is_alive '0'.
C3_OfflineUnitShowsInactive ==
    (call.op = "list" /\ resp.code = 200) =>
        \A i \in 1..Len(resp.compute_units) :
            resp.compute_units[i].status = "offline"
                => AllShownInactive(resp.compute_units[i])

\* C3 witness: a list response shows a unit offline with a camera whose
\* persisted row is still active.
C3_Witness ==
    /\ call.op = "list"
    /\ resp.code = 200
    /\ \E i \in 1..Len(resp.compute_units) :
          /\ resp.compute_units[i].status = "offline"
          /\ resp.compute_units[i].cameras # <<>>
          /\ \E s \in CamerasOf(streamers, resp.compute_units[i].id) :
                s.status = "active"

\* The pass fails: the fetch raises, or the commit does.  (No payload of the
\* fleet makes the loop raise.)
FleetPassFails(env) == env.fetch = "exc" \/ (env.fetch = "ok" /\ env.commitFails)

\* C4: in one list call over several units, a failure of one unit's pass
\* (transport or commit) never makes the call fail: the call returns every
\* unit, the failed unit is reported offline, and the remaining online units
\* are still reconciled.
C4_ListIsolatesFailures ==
    [][call'.op = "list" =>
          /\ resp'.code = 200
          /\ Len(resp'.compute_units) = Cardinality(units)
          /\ \A id \in DOMAIN call'.envs :
                /\ FleetPassFails(call'.envs[id])
                      => Reported(resp', id).status = "offline"
                /\ (call'.envs[id].fetch = "ok" /\ ~call'.envs[id].commitFails)
                      => /\ UnitById(units', id).status = "online"
                         /\ UnitById(units', id).last_seen = now']_vars

\* C5: a pass is all-or-nothing: if it fails, none of its streamer creations
\* or updates is persisted, so the persisted streamer rows equal those before
\* the pass.
C5_FailedPassPersistsNothing ==
    [][/\ (call'.op = "sync" /\ resp'.code = 500) => streamers' = streamers
       /\ (call'.op = "add" /\ resp'.code = 201 /\ ~call'.synced)
            => streamers' = streamers
       /\ (call'.op = "list" /\ resp'.code = 200)
            => \A u \in units :
                   (u.status = "online" /\ Reported(resp', u.id).status = "offline")
                       => streamers' = streamers]_vars

\* The rows without their timestamps.
WithoutTimestamps(S) == {[s EXCEPT !.last_seen = 0, !.created_at = 0] : s \in S}

\* C6: a pass run twice in a row on the same unit, with the same remote
\* inventory and the same assignments, leaves the streamer rows (every field
\* but the timestamps) as they were after the first pass and creates no row.
C6_ReconcileIdempotent ==
    [][(PassesOf(call, resp) \cap PassesOf(call', resp') # {})
          => /\ WithoutTimestamps(streamers') = WithoutTimestamps(streamers)
             /\ {s.id : s \in streamers'} = {s.id : s \in streamers}]_vars

\* C6 witness: the same pass completed twice in a row, on a payload that
\* names a streamer twice and with an assignment that gives it a feature.
C6_Witness ==
    \E p \in prevPasses \cap PassesOf(call, resp) :
        /\ p[2].fetch = "ok"
        /\ p[2].device.kind = "ok"
        /\ Len(p[2].device.payload) = 2
        /\ \A i \in 1..2 : Get(p[2].device.payload[i], "streamer_uuid", "") = "c1"
        /\ p[2].device.payload[1] # p[2].device.payload[2]
        /\ \E s \in streamers : s.streamer_uuid = "c1" /\ ~s.features.null

\* The identifiers a payload names (absent and empty ones are skipped).
PayloadUuids(cameras) ==
    {Get(cameras[i], "streamer_uuid", "") : i \in 1..Len(cameras)} \ {""}

RowsOf(S, streamer_uuid) == {s \in S : s.streamer_uuid = streamer_uuid}

\* What C7 says of a completed pass p = <<unit id, env>>.
C7_PassUpserts(p) ==
    LET cameras ==
            IF p[2].fetch = "ok"
            THEN CamerasResource_get(UnitById(units, p[1]).ip_address, p[2].device)
            ELSE <<>>
        named == PayloadUuids(cameras)
        unseen == {x \in named : RowsOf(streamers, x) = {}}
    IN /\ \A x \in unseen : Cardinality(RowsOf(streamers', x)) = 1
       /\ \A x \in named \ unseen :
             {s.id : s \in RowsOf(streamers', x)} = {s.id : s \in RowsOf(streamers, x)}
       /\ Cardinality(streamers') = Cardinality(streamers) + Cardinality(unseen)

\* C7: over any sequence of passes, an inventory entry with an unseen
\* non-empty identifier creates exactly one row, an entry with a known
\* identifier updates its row and creates none, and in every reachable state
\* there is at most one row per identifier.
C7_UpsertByIdentifier ==
    /\ [](\A s1, s2 \in streamers :
              s1.streamer_uuid = s2.streamer_uuid => s1 = s2)
    /\ [][call'.op \in {"sync", "list"}
             => \A p \in PassesOf(call', resp') : C7_PassUpserts(p)]_vars

\* C7 witness: a pass created the row of c2 and updated the row of c1, which
\* an earlier pass had created.
C7_Witness ==
    /\ PassesOf(call, resp) # {}
    /\ \E s1, s2 \in streamers :
          /\ s1.streamer_uuid = "c1" /\ s1.created_at < now /\ s1.last_seen = now
          /\ s2.streamer_uuid = "c2" /\ s2.created_at = now

-----------------------------------------------------------------------------
(* Claims about ping_device_detailed *)

\* The remote answered HTTP 200 with a JSON object whose msg is "pong".
AnsweredPong(remote) ==
    /\ remote.kind = "response"
    /\ remote.status_code = 200
    /\ remote.body.json
    /\ remote.body.isdict
    /\ Has(remote.body.data, "msg")
    /\ remote.body.data["msg"] = "pong"

\* C8: for every address and every remote behaviour, ping_device_detailed
\* returns reachable=true if and only if the remote answers HTTP 200 with a
\* body whose msg field is exactly "pong".
C8_ReachableIffPong ==
    pingResult.done =>
        /\ ~pingResult.raised
        /\ pingResult.reachable <=> AnsweredPong(pingArgs.remote)

\* C8 witness: reachable was granted on a pong body that carries another
\* field beside msg.
C8_Witness ==
    /\ pingResult.done
    /\ pingResult.reachable
    /\ Has(pingArgs.remote.body.data, "status")

\* The failure path a transport failure is to be tagged with, as C9 has it.
C9_Tag(kind) ==
    CASE kind = "ConnectionError" -> "connection_refused"
      [] kind \in {"ConnectTimeout", "ReadTimeout"} -> "connection_timeout"
      [] OTHER -> "connection_failed"

\* C9: ping_device_detailed never raises; a refused connection, a timeout,
\* an unparsable body or any other exception gives reachable=false, a
\* message, and the method tag of the failure path: connection_refused for
\* a refused connection, connection_timeout for a timeout, connection_failed
\* for any other failure.
C9_FailureTagged ==
    (pingResult.done /\ PingTry(pingArgs.remote).exc # "none") =>
        /\ ~pingResult.raised
        /\ ~pingResult.reachable
        /\ pingResult.response # ""
        /\ pingResult.method = C9_Tag(PingTry(pingArgs.remote).exc)

-----------------------------------------------------------------------------
(* Claims about _convert_assignments_to_features *)

\* C10's selection: the records of L that yield a feature for s.
C10_Selected(s, a) ==
    /\ Has(a, "streamer_uuid") /\ a["streamer_uuid"] = s
    /\ Has(a, "is_active") /\ a["is_active"] = PyStr("true")
    /\ Has(a, "app_name") /\ a["app_name"] # ""
    /\ Has(a, "app_config_template_name") /\ a["app_config_template_name"] # ""

C10_Expected(s, L) ==
    LET Sel(a) == C10_Selected(s, a)
        picked == SelectSeq(L, Sel)
    IN [i \in 1..Len(picked) |->
           picked[i]["app_name"] \o "." \o picked[i]["app_config_template_name"]]

-----------------------------------------------------------------------------
(* Claims about the administrative requests *)

\* The operations that look a unit up by the id in their path.
UnitOps == {"delete", "update", "set_status", "list_cameras", "sync"}

\* C11: deleting a unit that owns n streamers removes the unit and exactly
\* those n rows together (both or, when the commit fails, neither), and
\* answers deleted_streamers_count = n; a request that names the deleted unit
\* right afterwards is answered Not Found, and no row is left under the
\* identifier of a deleted streamer.
C11_DeleteCascades ==
    /\ [][(call'.op = "delete" /\ \E u \in units : u.id = call'.unit_id) =>
             LET n == Cardinality({s \in streamers :
                                      s.compute_unit_id = call'.unit_id})
             IN IF call'.commitFails
                THEN /\ resp'.code = 500
                     /\ units' = units /\ streamers' = streamers
                ELSE /\ resp'.code = 200
                     /\ resp'.deleted_streamers_count = n
                     /\ units' = {u \in units : u.id # call'.unit_id}
                     /\ streamers' = {s \in streamers :
                                         s.compute_unit_id # call'.unit_id}
                     /\ Cardinality(streamers') = Cardinality(streamers) - n
                     /\ \A s \in streamers : s.compute_unit_id = call'.unit_id =>
                           ~\E x \in streamers' :
                               x.streamer_uuid = s.streamer_uuid]_vars
    /\ [][(/\ call.op = "delete" /\ resp.code = 200
           /\ call'.op \in UnitOps /\ call'.unit_id = call.unit_id)
             => resp'.code = 404]_vars

\* A unit owning two streamers was deleted, and both tables are empty.
C11_Witness ==
    /\ call.op = "delete" /\ resp.code = 200
    /\ resp.deleted_streamers_count = 2
    /\ units = {} /\ streamers = {}

\* C12: in any sequence of add requests, overlapping ones included, a
\* request whose address is already registered when it would create its row
\* is answered 409 Conflict and creates no row, and no two units ever share
\* an address.
C12_AddConflict ==
    /\ \A i \in DOMAIN adds :
          (adds[i].pc = "done" /\ adds[i].registered) => adds[i].code = 409
    /\ \A u, v \in units : u.ip_address = v.ip_address => u = v

\* C13: an add of an address that is not registered, whose probe reports it
\* unreachable, is answered 400 and leaves both tables as they were; a unit
\* row is created only by an add whose probe reported the address reachable.
C13_UnreachableNotAdded ==
    [][/\ (/\ call'.op = "add" /\ ~call'.reachable
           /\ ~\E u \in units : u.ip_address = call'.ip_address)
             => /\ resp'.code = 400
                /\ units' = units /\ streamers' = streamers
       /\ (\E u \in units' : \A v \in units : v.id # u.id)
             => (call'.op = "add" /\ call'.reachable)]_vars

\* With a unit and a streamer registered, an add of another address was
\* refused because its probe failed.
C13_Witness ==
    /\ call.op = "add" /\ ~call.reachable /\ resp.code = 400
    /\ units # {} /\ streamers # {}

\* C14: an add of an unregistered address whose probe succeeds persists the
\* unit online and is answered 201 whether or not the pass that follows
\* succeeds: a failure of that pass neither fails the add nor alters the new
\* row.
C14_AddSurvivesPassFailure ==
    [][(/\ call'.op = "add" /\ call'.reachable
        /\ ~\E u \in units : u.ip_address = call'.ip_address)
          => /\ resp'.code = 201
             /\ NewUnit(units, call'.ip_address, now') \in units']_vars

\* C15: the persisted status of a unit is always online or offline; a unit
\* is created online, by an add, and its status changes only from online to
\* offline or back, and only in a request that reconciles (list, sync): no
\* other operation changes it or gives it another value.
C15_StatusTransitions ==
    /\ [](\A u \in units : u.status \in {"online", "offline"})
    /\ [][\A v \in units' :
             IF \E u \in units : u.id = v.id
             THEN UnitById(units, v.id).status # v.status
                     => call'.op \in {"list", "sync"}
             ELSE v.status = "online" /\ call'.op = "add"]_vars

\* The payload a pass reads when the proxy request succeeds.
ReportedBy(unit_id, env) ==
    CamerasResource_get(UnitById(units, unit_id).ip_address, env.device)

\* The streamer fetch of the pass succeeded and its assignment fetch failed.
OnlyAssignmentsFail(env) == env.fetch = "ok" /\ env.asg.kind = "fail"

\* C16: when the assignment fetch of a pass fails while the streamer fetch
\* succeeded, the pass does what it does for an empty assignment list: unless
\* something else fails (the commit, an identifier the lookup rejects), it
\* is answered 200, every reported identifier has its row, owned by the unit
\* and with an empty feature list, and the unit is persisted online.
C16_AssignmentFailureTolerated ==
    [][(/\ call'.op = "sync" /\ OnlyAssignmentsFail(call'.env)
        /\ \E u \in units : u.id = call'.unit_id)
          => LET env == call'.env
                 named == PayloadUuids(ReportedBy(call'.unit_id, env))
                 empty == sync_cameras_from_unit(
                             [db |-> Db, sess |-> Db], call'.unit_id,
                             [env EXCEPT !.asg = [kind |-> "ok",
                                                  assignments |-> <<>>]],
                             now')
             IN /\ units' = empty.db.units /\ streamers' = empty.db.streamers
                /\ (~env.commitFails /\ UuidJsonArray \notin named)
                      => resp'.code = 200
                /\ resp'.code = 200
                      => /\ UnitById(units', call'.unit_id).status = "online"
                         /\ \A x \in named :
                               \E s \in streamers' :
                                  /\ s.streamer_uuid = x
                                  /\ s.compute_unit_id = call'.unit_id
                                  /\ s.features = NoneFeatures]_vars

\* A pass whose assignment fetch failed created the row of c2 and emptied
\* the feature list of c1, which an earlier pass had filled.
C16_Witness ==
    /\ call.op = "sync" /\ resp.code = 200
    /\ OnlyAssignmentsFail(call.env)
    /\ call.env.device.kind = "ok"
    /\ PayloadUuids(call.env.device.payload) = {"c1", "c2"}
    /\ \A s \in streamers : s.features = NoneFeatures
    /\ \E p \in prevPasses :
          /\ p[2].asg.kind = "ok" /\ p[2].device.kind = "ok"
          /\ p[2].asg.assignments = <<ActiveFor("c1")>>
          /\ "c1" \in PayloadUuids(p[2].device.payload)

\* C17: a sync request for an existing unit runs one pass whatever the
\* status of the unit, online or offline: the tables afterwards are those
\* one pass leaves, and when the pass completes the unit is persisted online
\* and the response lists the unit's cameras as persisted after the pass.
C17_SyncRunsOnePass ==
    [][(call'.op = "sync" /\ \E u \in units : u.id = call'.unit_id)
          => LET pass == sync_cameras_from_unit([db |-> Db, sess |-> Db],
                                                call'.unit_id, call'.env, now')
             IN /\ units' = pass.db.units /\ streamers' = pass.db.streamers
                /\ resp'.code = IF pass.raised THEN 500 ELSE 200
                /\ resp'.code = 200
                      => /\ resp'.cameras = CameraDicts(streamers', call'.unit_id)
                         /\ call'.env.fetch = "ok"
                               => UnitById(units', call'.unit_id).status = "online"]_vars

\* A sync of a unit that was offline completed: the unit is online again and
\* the response lists the two cameras the pass created.
C17_Witness ==
    /\ call.op = "sync" /\ call.was = "offline" /\ resp.code = 200
    /\ Len(resp.cameras) = 2
    /\ \A u \in units : u.status = "online"
    /\ \A s \in streamers : s.created_at = now

\* C18: a delete, update, set-status, list-cameras or sync request that
\* names an id no unit has, and a rename request that names an identifier
\* no streamer has, is answered 404 and leaves both tables as they were.
C18_UnknownIsNotFound ==
    [][(\/ /\ call'.op \in UnitOps
           /\ ~\E u \in units : u.id = call'.unit_id
        \/ /\ call'.op = "rename"
           /\ ~\E x \in streamers : x.streamer_uuid = call'.streamer_uuid)
          => /\ resp'.code = 404
             /\ units' = units /\ streamers' = streamers]_vars

\* With a unit and its streamers registered, a request named a unit id that
\* no unit has and was answered 404.
C18_Witness ==
    /\ call.op \in UnitOps /\ resp.code = 404
    /\ units # {} /\ streamers # {}
    /\ call.unit_id \notin {u.id : u \in units}

\* Unit u is persisted after the step exactly as before it: status and
\* last_seen included.
UnitUntouched(u) == u \in units'

\* The identifiers reported to the passes of a list request.
ReportedInList(c) ==
    UNION {IF c.envs[id].fetch = "ok" /\ c.envs[id].device.kind = "ok"
           THEN PayloadUuids(c.envs[id].device.payload) ELSE {} :
              id \in DOMAIN c.envs}

\* A list request reconciles the online units: a unit that was online and
\* whose proxy request raises is persisted offline by a request that answers.
OnlineUnitsReconciled ==
    \A u \in units :
        (/\ u.status = "online" /\ resp'.code = 200
         /\ call'.envs[u.id].fetch = "exc")
            => UnitById(units', u.id).status = "offline"

\* C19: a list request runs a pass for every online unit and for no offline
\* one: it leaves the persisted status, last_seen and streamer rows of every
\* offline unit as they were, so that no offline unit comes back online
\* through list requests.
C19_ListSkipsOffline ==
    [][call'.op = "list"
          => /\ OnlineUnitsReconciled
             /\ \A u \in units : u.status = "offline" =>
                   /\ UnitUntouched(u)
                   /\ OwnedBy(streamers', u.id) = OwnedBy(streamers, u.id)]_vars

\* C19 as the handler keeps it: a list request runs a pass for every online
\* unit and for no offline one: it leaves the persisted status and last_seen
\* of every offline unit as they were, gives it no streamer row, and leaves
\* its streamer rows as they were except those whose identifier is reported
\* to the pass of an online unit in the same request.
C19_ListSkipsOfflineButMoves ==
    [][call'.op = "list"
          => /\ OnlineUnitsReconciled
             /\ \A u \in units : u.status = "offline" =>
                   /\ UnitUntouched(u)
                   /\ OwnedBy(streamers', u.id) \subseteq OwnedBy(streamers, u.id)
                   /\ \A s \in OwnedBy(streamers, u.id) :
                         s \in streamers'
                            \/ s.streamer_uuid \in ReportedInList(call')]_vars

\* A list request left an offline unit offline while the pass of the other
\* unit, online, took over the camera the offline unit owned.
C19_Witness ==
    /\ call.op = "list" /\ resp.code = 200
    /\ \E u, v \in units :
          /\ u.status = "offline" /\ v.status = "online"
          /\ u.last_seen < v.last_seen /\ v.last_seen = now
          /\ OwnedBy(streamers, u.id) = {}
          /\ \E s \in OwnedBy(streamers, v.id) : s.created_at < u.last_seen

\* C20: a pass overwrites the display name of an existing streamer only when
\* the reported name is non-empty: when a streamer has just been renamed and
\* a completed pass reports it with an empty name, or with none, its
\* persisted name is still the one the rename gave it.
C20_EmptyNameKeepsRename ==
    [][(/\ call.op = "rename" /\ resp.code = 200
        /\ call'.op = "sync" /\ resp'.code = 200 /\ call'.env.fetch = "ok")
          => \A i \in 1..Len(call'.env.device.payload) :
                LET camera_data == call'.env.device.payload[i] IN
                (/\ camera_data.streamer_uuid = call.streamer_uuid
                 /\ Get(camera_data, "streamer_hr_name", "") = "")
                   => \E x \in streamers :
                         /\ x.streamer_uuid = call.streamer_uuid
                         /\ x.streamer_hr_name = call.data.name
                         /\ \E y \in streamers' :
                               /\ y.streamer_uuid = x.streamer_uuid
                               /\ y.streamer_hr_name = x.streamer_hr_name]_vars

-----------------------------------------------------------------------------
(* Claims about ownership, derived columns and frames *)

\* The identifiers that the one pass of a sync or add request was given.
ReportedTo(c) ==
    IF c.env.fetch = "ok" /\ c.env.device.kind = "ok"
    THEN PayloadUuids(c.env.device.payload) ELSE {}

\* C21: after a completed pass of unit U (the pass of a sync or of an add),
\* every streamer of the reported inventory has owner U and the address of U,
\* also when another unit owned it before; and a delete of a unit removes
\* and counts only the rows that unit owns at that time, so that a streamer
\* that moved away from V survives the delete of V.
C21_ReportedMovesToReporter ==
    /\ [][call'.op \in {"sync", "add"} =>
             \A p \in PassesOf(call', resp') :
                \A x \in ReportedTo(call') :
                   \E s \in streamers' :
                      /\ s.streamer_uuid = x
                      /\ s.compute_unit_id = p[1]
                      /\ s.ip_address = UnitById(units', p[1]).ip_address]_vars
    /\ [][(call'.op = "delete" /\ resp'.code = 200) =>
             /\ \A s \in streamers :
                   s.compute_unit_id # call'.unit_id => s \in streamers'
             /\ resp'.deleted_streamers_count =
                   Cardinality({s \in streamers :
                                   s.compute_unit_id = call'.unit_id})]_vars

\* Unit 1 was deleted after the pass of unit 2 had taken over the streamer
\* that the pass of unit 1 had created: the delete counted no streamer and
\* the streamer is still there, owned by unit 2.
C21_Witness ==
    /\ call.op = "delete" /\ call.unit_id = 1 /\ resp.code = 200
    /\ resp.deleted_streamers_count = 0
    /\ {u.id : u \in units} = {2}
    /\ \E s \in streamers :
          /\ s.created_at = 1 /\ s.compute_unit_id = 2
          /\ s.ip_address = UnitById(units, 2).ip_address

\* C22: in every reachable state, whatever passes, streamer additions,
\* liveness updates and renames have run, a streamer row has status "active"
\* exactly when its stored liveness flag is "1".
C22_StatusFollowsLiveness ==
    \A s \in streamers : (s.status = "active") <=> (s.is_alive = "1")

\* What the network and the database did in each pass that a request started,
\* completed or not.
EnvsOf(c) ==
    CASE c.op \in {"sync", "add"} -> {c.env}
      [] c.op = "list" -> {c.envs[id] : id \in DOMAIN c.envs}
      [] OTHER -> {}

\* The identifiers of the inventory that a pass was given.
NamedBy(env) ==
    IF env.fetch = "ok" /\ env.device.kind = "ok"
    THEN PayloadUuids(env.device.payload) ELSE {}

\* The pass was given an inventory with no entry.
EmptyInventory(env) ==
    env.fetch = "ok" /\ env.device.kind = "ok" /\ env.device.payload = <<>>

\* C23: a completed pass with an empty inventory leaves the unit online and
\* neither deletes nor modifies a streamer row; no pass deletes a row; and a
\* row whose identifier no inventory of the request names is left as it is.
C23_PassNeverRemoves ==
    [][call'.op \in {"sync", "add", "list"} =>
          /\ \A s \in streamers : \E x \in streamers' : x.id = s.id
          /\ \A s \in streamers :
                (\A env \in EnvsOf(call') : s.streamer_uuid \notin NamedBy(env))
                   => s \in streamers'
          /\ \A p \in PassesOf(call', resp') :
                EmptyInventory(p[2])
                   => /\ UnitById(units', p[1]).status = "online"
                      /\ (call'.op # "list" => streamers' = streamers)]_vars

\* A sync whose pass was given an empty inventory completed while the unit
\* owned a row that an earlier pass had created.
C23_Witness ==
    /\ call.op = "sync" /\ resp.code = 200
    /\ EmptyInventory(call.env)
    /\ UnitById(units, call.unit_id).status = "online"
    /\ \E s \in streamers :
          s.compute_unit_id = call.unit_id /\ s.last_seen < now

\* C24: after a completed pass, each streamer that the pass was given has as
\* its persisted feature list what convert_assignments_to_features makes of
\* the assignments fetched in that pass, so that a feature no longer active
\* is gone; and no request other than one that runs a pass changes the
\* feature list of a row.
C24_FeaturesRecomputed ==
    /\ [][\A x \in UNION {NamedBy(p[2]) : p \in PassesOf(call', resp')} :
             \A s \in RowsOf(streamers', x) :
                \E p \in PassesOf(call', resp') :
                   /\ x \in NamedBy(p[2])
                   /\ FeaturesList(s.features) =
                         convert_assignments_to_features(
                            x, fetch_app_assignments(p[2].asg)).features]_vars
    /\ [][call'.op \notin {"sync", "add", "list"} =>
             \A s \in streamers, x \in streamers' :
                x.id = s.id => x.features = s.features]_vars

\* A completed sync whose assignment list had nothing for c1 left c1 with no
\* feature, after the pass of the request before had given it one.
C24_Witness ==
    /\ call.op = "sync" /\ resp.code = 200
    /\ "c1" \in NamedBy(call.env)
    /\ \E s \in streamers : s.streamer_uuid = "c1" /\ s.features = NoneFeatures
    /\ \E p \in prevPasses :
          /\ "c1" \in NamedBy(p[2])
          /\ convert_assignments_to_features(
                "c1", fetch_app_assignments(p[2].asg)).features # <<>>

\* The units other than unit id are after the step what they were before it.
OtherUnitsKept(id) ==
    {u \in units : u.id # id} = {u \in units' : u.id # id}

\* C27: an update request whose body carries a name alone changes the name
\* of the unit and nothing else of it; a set-status request changes the
\* status of the unit, its last_seen exactly when the status is online, and
\* nothing else of it; neither changes a streamer row or another unit.
C27_UnitFieldUpdates ==
    /\ [][(/\ call'.op = "update" /\ resp'.code = 200
           /\ Has(call'.data, "name") /\ ~Has(call'.data, "status"))
             => /\ UnitById(units', call'.unit_id) =
                      [UnitById(units, call'.unit_id)
                          EXCEPT !.name = call'.data.name]
                /\ OtherUnitsKept(call'.unit_id)
                /\ streamers' = streamers]_vars
    /\ [][(call'.op = "set_status" /\ resp'.code = 200)
             => /\ UnitById(units', call'.unit_id) =
                      [UnitById(units, call'.unit_id)
                          EXCEPT !.status = call'.data.status,
                                 !.last_seen =
                                     IF call'.data.status = "online"
                                     THEN now' ELSE @]
                /\ OtherUnitsKept(call'.unit_id)
                /\ streamers' = streamers]_vars

\* A set-status request put offline one of two units, which owns a streamer
\* and was last seen before the request.
C27_Witness ==
    /\ call.op = "set_status" /\ resp.code = 200
    /\ call.data.status = "offline"
    /\ Cardinality(units) = 2
    /\ UnitById(units, call.unit_id).status = "offline"
    /\ UnitById(units, call.unit_id).last_seen < now
    /\ \E s \in streamers : s.compute_unit_id = call.unit_id

\* C28: a delete of a unit leaves every favorite, every other unit and every
\* streamer that the unit does not own as they were, a favorite included
\* whose identifier is that of a streamer the delete removes.
C28_DeleteFrame ==
    [][(call'.op = "delete" /\ resp'.code = 200)
          => /\ favorites' = favorites
             /\ OtherUnitsKept(call'.unit_id)
             /\ {s \in streamers : s.compute_unit_id # call'.unit_id}
                   = {s \in streamers' : s.compute_unit_id # call'.unit_id}]_vars

\* A delete removed a unit and its streamer c1 while c1 was a favorite; the
\* favorite is still there.
C28_Witness ==
    /\ call.op = "delete" /\ resp.code = 200
    /\ resp.deleted_streamers_count = 1
    /\ streamers = {}
    /\ \E x \in favorites : x.streamer_uuid = "c1"

\* C29: when the proxy answers the inventory request of a pass with a status
\* other than 200, the pass changes no row (the unit keeps its status and
\* last_seen, no streamer is created or updated), commits nothing and returns
\* to its caller without raising: the sync is answered 200, and the add is
\* answered 201 with the unit it inserted before the pass as the one change.
C29_Non200ChangesNothing ==
    /\ [][(/\ call'.op = "sync" /\ call'.env.fetch = "non200"
           /\ \E u \in units : u.id = call'.unit_id)
             => /\ units' = units
                /\ streamers' = streamers
                /\ resp'.code = 200]_vars
    /\ [][(/\ call'.op = "add" /\ call'.env.fetch = "non200"
           /\ resp'.code \notin {400, 409})
             => /\ call'.synced
                /\ resp'.code = 201
                /\ streamers' = streamers
                /\ units' = units \cup {NewUnit(units, call'.ip_address, now')}]_vars

\* A sync whose inventory request was answered with another status than 200
\* was answered 200 and left the unit offline, as a failed pass had put it.
C29_Witness ==
    /\ call.op = "sync" /\ call.env.fetch = "non200" /\ resp.code = 200
    /\ UnitById(units, call.unit_id).status = "offline"
    /\ UnitById(units, call.unit_id).last_seen < now

-----------------------------------------------------------------------------
(* Claims about requests that overlap *)

\* What the network and the database did in the pass of unit id of a request.
EnvFor(c, id) == IF c.op = "list" THEN c.envs[id] ELSE c.env

\* C25: the streamer rows a pass writes and the status and last_seen it gives
\* the unit become visible together: what a reader finds committed after a
\* request never has a streamer row written by a pass without the unit of
\* that pass online and seen at the same time, nor some of the rows of the
\* pass's inventory written and others not.
C25_PassVisibleAtOnce ==
    [][call'.op \in {"sync", "add", "list"} =>
          \A s \in streamers' :
             s.last_seen = now' =>
                /\ \E u \in units' :
                      /\ u.id = s.compute_unit_id
                      /\ u.status = "online"
                      /\ u.last_seen = now'
                /\ \A x \in NamedBy(EnvFor(call', s.compute_unit_id)) :
                      \E o \in streamers' :
                         o.streamer_uuid = x /\ o.last_seen = now']_vars

\* Every request in flight is a sync of the one unit with the one inventory;
\* there are several, the unit was there when each began, and all have been
\* answered.
SamePassesDone ==
    /\ Len(flights) >= 2
    /\ \A i \in DOMAIN flights :
          /\ flights[i].op = "sync" /\ flights[i].pc = "done"
          /\ flights[i].code # NotFound.code
          /\ flights[i].unit_id = flights[1].unit_id
          /\ flights[i].env = flights[1].env

\* C26: two passes of one unit that overlap and are given the same inventory
\* end as if one had run after the other: both requests are answered 200,
\* each identifier of the inventory has exactly one row, owned by the unit
\* and with the liveness the inventory reports, and the unit is online.
C26_ConcurrentPassesSerialize ==
    SamePassesDone =>
       /\ \A i \in DOMAIN flights : flights[i].code = 200
       /\ \A x \in NamedBy(flights[1].env) :
             /\ Cardinality(RowsOf(streamers, x)) = 1
             /\ \A s \in RowsOf(streamers, x) :
                   /\ s.compute_unit_id = flights[1].unit_id
                   /\ s.is_alive = flights[1].env.device.payload[1].is_alive
       /\ UnitById(units, flights[1].unit_id).status = "online"

\* C30: in every reachable state, whatever way a delete of a unit and a pass
\* of the same unit interleave, a streamer whose compute_unit_id is not null
\* names a unit that exists.
C30_OwnerExists ==
    \A s \in streamers :
       s.compute_unit_id # NoOwner => \E u \in units : u.id = s.compute_unit_id

====
